---------------------------- MODULE Spec2Model ----------------------------
(***************************************************************************)
(* TapRight backend (src/backend/server.py): the location-check handler,   *)
(* its two helpers (calculate_distance, get_best_card_for_category), the   *)
(* wallet handlers and the four collections they read and write.           *)
(*                                                                         *)
(* Every handler is an async coroutine: each `await db....` is one atomic  *)
(* store operation, and the code between two awaits runs without           *)
(* interleaving.  One action of the model is therefore one store operation *)
(* together with the synchronous code that follows it up to the next       *)
(* await.  Handlers of different requests interleave at the awaits.        *)
(*                                                                         *)
(* Time is the integer `now` (hours); datetime.utcnow() reads it.          *)
(* Coordinates lie on one meridian on an integer grid of latitudes, where  *)
(* the haversine distance is proportional to the latitude difference;      *)
(* distances and radii are in grid steps.                                  *)
(***************************************************************************)
EXTENDS Integers, Sequences, FiniteSets, TLC

VARIABLES
    now,                \* datetime.utcnow(), in hours
    poi_locations,      \* db.poi_locations, in insertion order
    user_cards,         \* db.user_cards, in insertion order
    notification_logs,  \* db.notification_logs, in insertion order
    call,               \* per request slot: the check_location coroutine's frame
    notified,           \* history: per (user, POI id), when the last
                        \* recommendation returned to the user was stamped
    best_in,            \* arguments of a direct get_best_card_for_category call
    best_out,           \* its return value and the per-card rates it resolved
    geo_in,             \* catalog and sample of a direct proximity scan
    geo_out,            \* the handler's frame after that scan
    fmt_in,             \* merchant, card and rate of a direct run of the
                        \* recommendation formatting
    fmt_out,            \* the reward_rate and message texts it built
    dist_in,            \* two points of a direct calculate_distance call
    dist_out,           \* its outcomes in both argument orders
    credit_cards,       \* db.credit_cards, in insertion order
    cards_call,         \* per request slot: the get_all_cards coroutine's frame
    users,              \* db.users, in insertion order
    http_out,           \* the last request refused by get_current_user
    wallet_out,         \* the last get_user_cards response
    owned,              \* history: per user, the card ids the wallet handlers
                        \* have answered as added and not answered as removed
    add_call,           \* per request slot: the add_user_card coroutine's frame
    signup_call         \* per request slot: the signup coroutine's frame

vars == <<now, poi_locations, user_cards, notification_logs, call, notified,
          best_in, best_out, geo_in, geo_out, fmt_in, fmt_out, dist_in,
          dist_out, credit_cards, cards_call, users, http_out, wallet_out,
          owned, add_call, signup_call>>

dbvars == <<poi_locations, user_cards, notification_logs>>
purevars == <<best_in, best_out, geo_in, geo_out>>
reqvars == <<add_call, signup_call>>
auxvars == <<fmt_in, fmt_out, dist_in, dist_out, credit_cards, cards_call,
             users, http_out, wallet_out>>

----------------------------------------------------------------------------
(* Bounds of the model *)

MaxTime == 6
MaxLogs == 2
TickHours == 2
MaxCards == 2
MaxRate == 2
MaxPois == 3
MaxLat == 2
MaxRadius == 2
(* Grid steps in a quarter turn: latitudes -QuarterTurn..QuarterTurn and   *)
(* longitudes -2*QuarterTurn..2*QuarterTurn are the coordinates in range.  *)
QuarterTurn == 6

(* timedelta(hours=4) *)
Cooldown == 4

Users == {"u1", "u2"}
(* The users who send wallet requests; the others keep the wallet they have *)
WalletUsers == {"u1"}
Procs == {1, 2}

Abs(x) == IF x < 0 THEN -x ELSE x

----------------------------------------------------------------------------
(* str.lower() on the category names the model uses *)
Lower(s) ==
    CASE s = "Gas" -> "gas"
      [] s = "GAS" -> "gas"
      [] OTHER -> s

(* Haversine distance, in grid steps, where it is a whole number of them:  *)
(* with a = sin^2(dphi/2) + cos(phi1) cos(phi2) sin^2(dlambda/2) and       *)
(* c = 2 atan2(sqrt(a), sqrt(1 - a)),                                      *)
(*   - on one meridian (dlambda zero or a full turn) a = sin^2(dphi/2)     *)
(*     and c = |dphi|;                                                     *)
(*   - on opposite meridians (dlambda a half turn)                         *)
(*     a = cos^2((phi1 + phi2)/2) and c = half turn - |phi1 + phi2|;       *)
(*   - on the equator a = sin^2(dlambda/2) and c is |dlambda| taken the    *)
(*     short way round.                                                    *)
calculate_distance(lat1, lon1, lat2, lon2) ==
    LET dlambda == Abs(lon2 - lon1)
    IN  IF dlambda = 0 \/ dlambda = 4 * QuarterTurn THEN Abs(lat2 - lat1)
        ELSE IF dlambda = 2 * QuarterTurn
        THEN 2 * QuarterTurn - Abs(lat1 + lat2)
        ELSE IF dlambda <= 2 * QuarterTurn THEN dlambda
        ELSE 4 * QuarterTurn - dlambda

(* math.sqrt(1 - a) raises ValueError when a exceeds 1.  The exact a is 1  *)
(* for antipodal points; on opposite meridians it is the rounded sum       *)
(* sin^2(phi) + cos^2(phi), which is above 1 for some latitudes strictly   *)
(* between the equator and a pole and for no other in-range input.         *)
CanRaise(lat1, lon1, lat2, lon2) ==
    /\ Abs(lon2 - lon1) = 2 * QuarterTurn
    /\ lat1 + lat2 = 0
    /\ Abs(lat1) \notin {0, QuarterTurn}

----------------------------------------------------------------------------
(* get_best_card_for_category *)

(* Faulty variant: the best of the three keys instead of the first present one. *)
CardRateMax(rewards, category) ==
    LET ks == {Lower(category), "everything", "general"} \cap DOMAIN rewards
    IN  IF ks = {} THEN 0
        ELSE CHOOSE r \in {rewards[k] : k \in ks} :
                 \A k \in ks : rewards[k] <= r

(* The rate one card resolves to (the if / elif / elif of the loop body). *)
CardRate(rewards, category) ==
    IF Lower(category) \in DOMAIN rewards THEN rewards[Lower(category)]
    ELSE IF "everything" \in DOMAIN rewards THEN rewards["everything"]
    ELSE IF "general" \in DOMAIN rewards THEN rewards["general"]
    ELSE 0

(* Faulty variant: `rate >= best_rate`, so a later card of equal rate wins and a   *)
(* card of rate 0 is returned.                                             *)
RECURSIVE BestLoopGe(_, _, _, _, _)
BestLoopGe(cards, category, i, best_card, best_rate) ==
    IF i > Len(cards) THEN <<best_card, best_rate>>
    ELSE LET rate == CardRate(cards[i].rewards, category)
         IN  IF rate >= best_rate
             THEN BestLoopGe(cards, category, i + 1, <<cards[i]>>, rate)
             ELSE BestLoopGe(cards, category, i + 1, best_card, best_rate)

(* The for loop: best_card is <<>> for None, <<card>> otherwise. *)
RECURSIVE BestLoop(_, _, _, _, _)
BestLoop(cards, category, i, best_card, best_rate) ==
    IF i > Len(cards) THEN <<best_card, best_rate>>
    ELSE LET rate == CardRate(cards[i].rewards, category)
         IN  IF rate > best_rate
             THEN BestLoop(cards, category, i + 1, <<cards[i]>>, rate)
             ELSE BestLoop(cards, category, i + 1, best_card, best_rate)

(* Returns <<>> for None and <<best_card, best_rate>> otherwise. *)
get_best_card_for_category(cards, category) ==
    LET r == BestLoop(cards, category, 1, <<>>, 0)
    IN  IF r[1] # <<>> THEN <<r[1][1], r[2]>> ELSE <<>>

----------------------------------------------------------------------------
(* The proximity scan of check_location (the for loop over all_pois) *)

NoPoi == [id |-> 0, name |-> "none", category |-> "none",
          latitude |-> 0, longitude |-> 0, radius |-> 0]

(* Faulty variant: `distance <= min_distance`, so the last of two equally distant  *)
(* POIs wins.                                                              *)
RECURSIVE ScanLoopLe(_, _, _, _, _)
ScanLoopLe(all_pois, lat, i, nearby_poi, min_distance) ==
    IF i > Len(all_pois) THEN nearby_poi
    ELSE LET poi == all_pois[i]
             distance == calculate_distance(lat, 0, poi.latitude, poi.longitude)
         IN  IF distance <= poi.radius
                /\ (min_distance = <<>> \/ distance <= min_distance[1])
             THEN ScanLoopLe(all_pois, lat, i + 1, poi, <<distance>>)
             ELSE ScanLoopLe(all_pois, lat, i + 1, nearby_poi, min_distance)

(* Faulty variant: an exclusive radius test, `distance < poi.radius`. *)
RECURSIVE ScanLoopExclusive(_, _, _, _, _)
ScanLoopExclusive(all_pois, lat, i, nearby_poi, min_distance) ==
    IF i > Len(all_pois) THEN nearby_poi
    ELSE LET poi == all_pois[i]
             distance == calculate_distance(lat, 0, poi.latitude, poi.longitude)
         IN  IF distance < poi.radius
                /\ (min_distance = <<>> \/ distance < min_distance[1])
             THEN ScanLoopExclusive(all_pois, lat, i + 1, poi, <<distance>>)
             ELSE ScanLoopExclusive(all_pois, lat, i + 1, nearby_poi, min_distance)

(* Faulty variant: no `distance < min_distance` test, so the last in-range *)
(* POI of the catalog is chosen.                                           *)
RECURSIVE ScanLoopLast(_, _, _, _, _)
ScanLoopLast(all_pois, lat, i, nearby_poi, min_distance) ==
    IF i > Len(all_pois) THEN nearby_poi
    ELSE LET poi == all_pois[i]
             distance == calculate_distance(lat, 0, poi.latitude, poi.longitude)
         IN  IF distance <= poi.radius
             THEN ScanLoopLast(all_pois, lat, i + 1, poi, <<distance>>)
             ELSE ScanLoopLast(all_pois, lat, i + 1, nearby_poi, min_distance)

(* min_distance is <<>> for float('inf') and <<d>> otherwise; the result   *)
(* is NoPoi for None.  The sample and the POIs share longitude 0.          *)
RECURSIVE ScanLoop(_, _, _, _, _)
ScanLoop(all_pois, lat, i, nearby_poi, min_distance) ==
    IF i > Len(all_pois) THEN nearby_poi
    ELSE LET poi == all_pois[i]
             distance == calculate_distance(lat, 0, poi.latitude, poi.longitude)
         IN  IF distance <= poi.radius
                /\ (min_distance = <<>> \/ distance < min_distance[1])
             THEN ScanLoop(all_pois, lat, i + 1, poi, <<distance>>)
             ELSE ScanLoop(all_pois, lat, i + 1, nearby_poi, min_distance)

NearbyPoi(all_pois, lat) == ScanLoop(all_pois, lat, 1, NoPoi, <<>>)

----------------------------------------------------------------------------
(* The stored data of the running system *)

(* db.credit_cards: a gas card with a general fallback (Blue Cash          *)
(* Everyday) and a card with no rate for gas or coffee and no fallback.    *)
CreditCards ==
    [blue |-> [name |-> "Blue Cash Everyday", rewards |-> [gas |-> 3, general |-> 1]],
     dine |-> [name |-> "Dining Only",        rewards |-> [dining |-> 5]]]

CardIds == DOMAIN CreditCards

(* A seeded catalog: at latitude 0 both POIs are in range and the first is *)
(* the nearer, at latitude 4 only the second is (at exactly its radius),   *)
(* at latitude 5 none is.                                                  *)
Catalog ==
    << [id |-> 1, name |-> "Chevron Station", category |-> "gas",
        latitude |-> 0, longitude |-> 0, radius |-> 1],
       [id |-> 2, name |-> "Starbucks Downtown", category |-> "coffee",
        latitude |-> 2, longitude |-> 0, radius |-> 2] >>

PoiIds == {Catalog[i].id : i \in DOMAIN Catalog}

SampleLats == {0, 4, 5}

IdleFrame ==
    [pc |-> "idle", user |-> "none", latitude |-> 0, nearby_poi |-> NoPoi,
     body_user_id |-> "none",   \* LocationCheck.user_id of the request body
     four_hours_ago |-> 0, log |-> <<>>, response |-> <<>>,
     seeded |-> 0,       \* default POIs this call has inserted so far
     checked_at |-> 0,   \* history: the utcnow() four_hours_ago was taken from
     appended |-> 0]     \* history: records this call has inserted

InFlight == {p \in Procs : call[p].pc \notin {"idle", "done"}}

CardsOf(u) == SelectSeq(user_cards, LAMBDA c : c.user_id = u)


----------------------------------------------------------------------------
(* check_location *)

(* Faulty variant: the `timestamp` condition strict, `$gt`. *)
RecentNotificationGt(user_id, poi_id, since) ==
    \E i \in DOMAIN notification_logs :
        /\ notification_logs[i].user_id = user_id
        /\ notification_logs[i].poi_id = poi_id
        /\ notification_logs[i].timestamp > since

(* Faulty variant: the filter without its `poi_id` key. *)
RecentNotificationAnyPoi(user_id, poi_id, since) ==
    \E i \in DOMAIN notification_logs :
        /\ notification_logs[i].user_id = user_id
        /\ notification_logs[i].timestamp >= since

(* The find_one on notification_logs with its three-part filter. *)
RecentNotification(user_id, poi_id, since) ==
    \E i \in DOMAIN notification_logs :
        /\ notification_logs[i].user_id = user_id
        /\ notification_logs[i].poi_id = poi_id
        /\ notification_logs[i].timestamp >= since

(* Faulty variant: the record loses the POI it was written for. *)
NotificationLogNoPoi(user_id, poi_id, card_recommended) ==
    [user_id |-> user_id, poi_id |-> 0,
     card_recommended |-> card_recommended, timestamp |-> now]

(* The NotificationLog built after a match; timestamp defaults to utcnow(). *)
NotificationLog(user_id, poi_id, card_recommended) ==
    [user_id |-> user_id, poi_id |-> poi_id,
     card_recommended |-> card_recommended, timestamp |-> now]

(* The code from the catalog read to the next await: the scan, the early   *)
(* return when no POI is in range, and four_hours_ago.                     *)
AfterPois(f, all_pois) ==
    LET nearby_poi == NearbyPoi(all_pois, f.latitude)
    IN  IF nearby_poi = NoPoi
        THEN [f EXCEPT !.pc = "done",
                       !.response = <<[found |-> FALSE, kind |-> "not_found",
                                       merchant |-> "none", card |-> "none"]>>]
        ELSE [f EXCEPT !.pc = "throttle",
                       !.nearby_poi = nearby_poi,
                       !.four_hours_ago = now - Cooldown,
                       !.checked_at = now]

(* The request arrives with a valid token of `user` and the first          *)
(* poi_locations.find() runs on a seeded catalog.                          *)
FindPois(p, user, lat) ==
    /\ call[p].pc = "idle"
    /\ Len(notification_logs) + Cardinality(InFlight) < MaxLogs
    /\ poi_locations # <<>>
    /\ call' = [call EXCEPT ![p] =
                   AfterPois([IdleFrame EXCEPT !.user = user, !.latitude = lat],
                             poi_locations)]
    /\ UNCHANGED <<now, dbvars, notified, purevars, auxvars, owned, reqvars>>

(* Faulty variant: the wallet is read before the throttle lookup, and an   *)
(* empty wallet returns no_cards without consulting the log.               *)
CheckThrottleAfterCards(p) ==
    /\ call[p].pc = "throttle"
    /\ LET f == call[p]
       IN  call' = [call EXCEPT ![p] =
               IF CardsOf(f.user) = <<>>
               THEN [f EXCEPT !.pc = "done", !.four_hours_ago = 0,
                              !.checked_at = 0,
                              !.response = <<[found |-> TRUE, kind |-> "no_cards",
                                              merchant |-> f.nearby_poi.name,
                                              card |-> "none"]>>]
               ELSE IF RecentNotification(f.user, f.nearby_poi.id, f.four_hours_ago)
               THEN [f EXCEPT !.pc = "done", !.four_hours_ago = 0,
                              !.checked_at = 0,
                              !.response = <<[found |-> TRUE, kind |-> "throttled",
                                              merchant |-> f.nearby_poi.name,
                                              card |-> "none"]>>]
               ELSE [f EXCEPT !.pc = "cards", !.four_hours_ago = 0,
                              !.checked_at = 0]]
    /\ UNCHANGED <<now, dbvars, notified, purevars, auxvars, owned, reqvars>>

(* Faulty variant: the throttled path writes a record of its own. *)
CheckThrottleExtends(p) ==
    /\ call[p].pc = "throttle"
    /\ LET f == call[p]
           hit == RecentNotification(f.user, f.nearby_poi.id, f.four_hours_ago)
       IN  /\ call' = [call EXCEPT ![p] =
                  IF hit
                  THEN [f EXCEPT !.pc = "done", !.four_hours_ago = 0,
                                 !.checked_at = 0,
                                 !.response = <<[found |-> TRUE, kind |-> "throttled",
                                                 merchant |-> f.nearby_poi.name,
                                                 card |-> "none"]>>]
                  ELSE [f EXCEPT !.pc = "cards", !.four_hours_ago = 0,
                                 !.checked_at = 0]]
           /\ notification_logs' =
                  IF hit
                  THEN Append(notification_logs,
                              NotificationLog(f.user, f.nearby_poi.id, "none"))
                  ELSE notification_logs
    /\ UNCHANGED <<now, poi_locations, user_cards, notified, purevars,
                   auxvars, owned, reqvars>>

(* Faulty variant: the throttle lookup keyed on the user_id of the body.   *)
CheckThrottleBodyUser(p) ==
    /\ call[p].pc = "throttle"
    /\ LET f == call[p]
       IN  call' = [call EXCEPT ![p] =
               IF RecentNotification(f.body_user_id, f.nearby_poi.id,
                                     f.four_hours_ago)
               THEN [f EXCEPT !.pc = "done", !.four_hours_ago = 0,
                              !.checked_at = 0,
                              !.response = <<[found |-> TRUE, kind |-> "throttled",
                                              merchant |-> f.nearby_poi.name,
                                              card |-> "none"]>>]
               ELSE [f EXCEPT !.pc = "cards", !.four_hours_ago = 0,
                              !.checked_at = 0]]
    /\ UNCHANGED <<now, dbvars, notified, purevars, auxvars, owned, reqvars>>

(* notification_logs.find_one and the `if recent_notification` return.     *)
(* four_hours_ago is not read again and is cleared in the frame.           *)
CheckThrottle(p) ==
    /\ call[p].pc = "throttle"
    /\ LET f == call[p]
       IN  call' = [call EXCEPT ![p] =
               IF RecentNotification(f.user, f.nearby_poi.id, f.four_hours_ago)
               THEN [f EXCEPT !.pc = "done", !.four_hours_ago = 0,
                              !.checked_at = 0,
                              !.response = <<[found |-> TRUE, kind |-> "throttled",
                                              merchant |-> f.nearby_poi.name,
                                              card |-> "none"]>>]
               ELSE [f EXCEPT !.pc = "cards", !.four_hours_ago = 0,
                              !.checked_at = 0]]
    /\ UNCHANGED <<now, dbvars, notified, purevars, auxvars, owned, reqvars>>

(* Faulty variant: no `if not user_cards_data` return, so an empty wallet   *)
(* falls through to the matcher and comes back as no_match.                *)
FindCardsNoEmptyCheck(p) ==
    /\ call[p].pc = "cards"
    /\ LET f == call[p]
           user_cards_data == CardsOf(f.user)
           best_match == get_best_card_for_category(user_cards_data,
                                                    f.nearby_poi.category)
       IN  call' = [call EXCEPT ![p] =
               IF best_match = <<>>
               THEN [f EXCEPT !.pc = "done",
                              !.response = <<[found |-> TRUE, kind |-> "no_match",
                                              merchant |-> f.nearby_poi.name,
                                              card |-> "none"]>>]
               ELSE [f EXCEPT !.pc = "insert",
                              !.log = <<NotificationLog(f.user, f.nearby_poi.id,
                                                        best_match[1].card_name)>>]]
    /\ UNCHANGED <<now, dbvars, notified, purevars, auxvars, owned, reqvars>>

(* Faulty variant: the no_cards and no_match returns also insert a record  *)
(* for the pair.                                                           *)
FindCardsLogsDecline(p) ==
    /\ call[p].pc = "cards"
    /\ LET f == call[p]
           user_cards_data == CardsOf(f.user)
           best_match == get_best_card_for_category(user_cards_data,
                                                    f.nearby_poi.category)
           declined == user_cards_data = <<>> \/ best_match = <<>>
       IN  /\ call' = [call EXCEPT ![p] =
                  IF user_cards_data = <<>>
                  THEN [f EXCEPT !.pc = "done",
                                 !.response = <<[found |-> TRUE, kind |-> "no_cards",
                                                 merchant |-> f.nearby_poi.name,
                                                 card |-> "none"]>>]
                  ELSE IF best_match = <<>>
                  THEN [f EXCEPT !.pc = "done",
                                 !.response = <<[found |-> TRUE, kind |-> "no_match",
                                                 merchant |-> f.nearby_poi.name,
                                                 card |-> "none"]>>]
                  ELSE [f EXCEPT !.pc = "insert",
                                 !.log = <<NotificationLog(f.user, f.nearby_poi.id,
                                                           best_match[1].card_name)>>]]
           /\ notification_logs' =
                  IF declined
                  THEN Append(notification_logs,
                              NotificationLog(f.user, f.nearby_poi.id, "none"))
                  ELSE notification_logs
    /\ UNCHANGED <<now, poi_locations, user_cards, notified, purevars,
                   auxvars, owned, reqvars>>

(* user_cards.find, the no_cards and no_match returns, and the             *)
(* NotificationLog built (its timestamp defaults to utcnow()) for insert.  *)
FindCards(p) ==
    /\ call[p].pc = "cards"
    /\ LET f == call[p]
           user_cards_data == CardsOf(f.user)
           best_match == get_best_card_for_category(user_cards_data,
                                                    f.nearby_poi.category)
       IN  call' = [call EXCEPT ![p] =
               IF user_cards_data = <<>>
               THEN [f EXCEPT !.pc = "done",
                              !.response = <<[found |-> TRUE, kind |-> "no_cards",
                                              merchant |-> f.nearby_poi.name,
                                              card |-> "none"]>>]
               ELSE IF best_match = <<>>
               THEN [f EXCEPT !.pc = "done",
                              !.response = <<[found |-> TRUE, kind |-> "no_match",
                                              merchant |-> f.nearby_poi.name,
                                              card |-> "none"]>>]
               ELSE [f EXCEPT !.pc = "insert",
                              !.log = <<NotificationLog(f.user, f.nearby_poi.id,
                                                        best_match[1].card_name)>>]]
    /\ UNCHANGED <<now, dbvars, notified, purevars, auxvars, owned, reqvars>>

(* notification_logs.insert_one and the recommendation returned. *)
InsertLog(p) ==
    /\ call[p].pc = "insert"
    /\ notification_logs' = Append(notification_logs, call[p].log[1])
    /\ call' = [call EXCEPT ![p] =
                   [@ EXCEPT !.pc = "done",
                             !.appended = @ + 1,
                             !.response = <<[found |-> TRUE, kind |-> "recommendation",
                                             merchant |-> call[p].nearby_poi.name,
                                             card |-> call[p].log[1].card_recommended]>>]]
    /\ notified' = [notified EXCEPT ![<<call[p].user, call[p].nearby_poi.id>>] =
                        <<call[p].log[1].timestamp>>]
    /\ UNCHANGED <<now, poi_locations, user_cards, purevars, auxvars, owned,
                   reqvars>>

(* The response has been sent; the slot is free for the next request. *)
Return(p) ==
    /\ call[p].pc = "done"
    /\ call' = [call EXCEPT ![p] = IdleFrame]
    /\ UNCHANGED <<now, dbvars, notified, purevars, auxvars, owned, reqvars>>

----------------------------------------------------------------------------
(* Wallet handlers *)

(* The UserCard document add_user_card builds from the catalog card. *)
UserCard(user, card_id) ==
    [user_id |-> user, card_id |-> card_id,
     card_name |-> CreditCards[card_id].name,
     rewards |-> CreditCards[card_id].rewards]

(* add_user_card: 404 for an unknown card, 400 for one already in the      *)
(* wallet, else a UserCard with a snapshot of the catalog card's rewards.  *)
add_user_card(user, card_id) ==
    /\ card_id \in CardIds
    /\ ~ \E i \in DOMAIN user_cards :
           user_cards[i].user_id = user /\ user_cards[i].card_id = card_id
    /\ user_cards' = Append(user_cards, UserCard(user, card_id))
    /\ owned' = [owned EXCEPT ![user] = @ \cup {card_id}]
    /\ UNCHANGED <<now, poi_locations, notification_logs, call, notified,
                   purevars, auxvars, reqvars>>

(* remove_user_card: delete_one removes the first matching document. *)
remove_user_card(user, card_id) ==
    /\ \E i \in DOMAIN user_cards :
           /\ user_cards[i].user_id = user /\ user_cards[i].card_id = card_id
           /\ \A j \in 1..(i - 1) :
                  ~(user_cards[j].user_id = user /\ user_cards[j].card_id = card_id)
           /\ user_cards' = SubSeq(user_cards, 1, i - 1)
                              \o SubSeq(user_cards, i + 1, Len(user_cards))
    /\ owned' = [owned EXCEPT ![user] = @ \ {card_id}]
    /\ UNCHANGED <<now, poi_locations, notification_logs, call, notified,
                   purevars, auxvars, reqvars>>

(* The clock advances. *)
Tick ==
    /\ now + TickHours <= MaxTime
    /\ now' = now + TickHours
    /\ UNCHANGED <<dbvars, call, notified, purevars, auxvars, owned, reqvars>>


----------------------------------------------------------------------------
(* The running system: users signed up, catalogs seeded, u2 holding the   *)
(* gas card and u1 an empty wallet, nothing notified yet.                  *)

(* db.credit_cards of the running system: the documents of CreditCards. *)
SeededCards ==
    << [id |-> "blue", name |-> CreditCards["blue"].name],
       [id |-> "dine", name |-> CreditCards["dine"].name] >>

(* db.users of the running system: both users signed up, no questionnaire. *)
SignedUp ==
    << [id |-> "u1", email |-> "u1@example.com", questionnaire |-> <<>>],
       [id |-> "u2", email |-> "u2@example.com", questionnaire |-> <<>>] >>

CardsIdleFrame == [pc |-> "idle", next |-> 0, result |-> <<>>]

FmtIdle == fmt_in = <<>> /\ fmt_out = <<>>

DistIdle == dist_in = <<>> /\ dist_out = <<>>

CardsIdle ==
    /\ credit_cards = SeededCards
    /\ cards_call = [p \in Procs |-> CardsIdleFrame]

AuthIdle == users = SignedUp /\ http_out = <<>>

(* The history starts from the wallets as they are. *)
WalletIdle ==
    /\ wallet_out = <<>>
    /\ owned = [u \in Users |->
                  {user_cards[i].card_id : i \in {j \in DOMAIN user_cards :
                                                    user_cards[j].user_id = u}}]

AddIdleFrame == [pc |-> "idle", user |-> "none", card_id |-> "none",
                 status |-> 0]

SignupIdleFrame == [pc |-> "idle", email |-> "none", status |-> 0]

ReqIdle ==
    /\ add_call = [p \in Procs |-> AddIdleFrame]
    /\ signup_call = [p \in Procs |-> SignupIdleFrame]

AuxIdle ==
    FmtIdle /\ DistIdle /\ CardsIdle /\ AuthIdle /\ WalletIdle /\ ReqIdle

PureIdle ==
    /\ best_in = <<>>
    /\ best_out = <<>>
    /\ geo_in = <<>>
    /\ geo_out = <<>>

Init ==
    /\ now = 0
    /\ poi_locations = Catalog
    /\ user_cards = <<UserCard("u2", "blue")>>
    /\ notification_logs = <<>>
    /\ call = [p \in Procs |-> IdleFrame]
    /\ notified = [k \in Users \X PoiIds |-> <<>>]
    /\ PureIdle
    /\ AuxIdle

Next ==
    \/ \E p \in Procs, u \in Users, lat \in SampleLats : FindPois(p, u, lat)
    \/ \E p \in Procs : CheckThrottle(p)
    \/ \E p \in Procs : FindCards(p)
    \/ \E p \in Procs : InsertLog(p)
    \/ \E p \in Procs : Return(p)
    \/ \E u \in WalletUsers, c \in CardIds : add_user_card(u, c)
    \/ \E u \in WalletUsers, c \in CardIds : remove_user_card(u, c)
    \/ Tick

Spec == Init /\ [][Next]_vars


(* check_location requests served one at a time *)
FindPoisSeq(p, user, lat) ==
    /\ \A q \in Procs : call[q].pc = "idle"
    /\ FindPois(p, user, lat)

NextSeq ==
    \/ \E p \in Procs, u \in Users, lat \in SampleLats : FindPoisSeq(p, u, lat)
    \/ \E p \in Procs : CheckThrottle(p)
    \/ \E p \in Procs : FindCards(p)
    \/ \E p \in Procs : InsertLog(p)
    \/ \E p \in Procs : Return(p)
    \/ \E u \in WalletUsers, c \in CardIds : add_user_card(u, c)
    \/ \E u \in WalletUsers, c \in CardIds : remove_user_card(u, c)
    \/ Tick

SpecSeq == Init /\ [][NextSeq]_vars


----------------------------------------------------------------------------
(* get_best_card_for_category called directly on bounded inputs *)

(* All reward maps over the keys ks with rates 0..MaxRate. *)
RewardMaps(ks) == UNION {[d -> 0..MaxRate] : d \in SUBSET ks}

(* The card list with reward maps rs; the i-th card has id i. *)
CardList(rs) ==
    [i \in DOMAIN rs |-> [id |-> i, card_name |-> i, rewards |-> rs[i]]]

BestCategories == {"gas", "coffee"}

MainIdle ==
    /\ now = 0
    /\ poi_locations = Catalog
    /\ user_cards = <<UserCard("u2", "blue")>>
    /\ notification_logs = <<>>
    /\ call = [p \in Procs |-> IdleFrame]
    /\ notified = [k \in Users \X PoiIds |-> <<>>]

(* One card with any of four keys, or up to MaxCards cards with the        *)
(* category key and one fallback key.                                      *)
InitBest ==
    /\ MainIdle
    /\ \/ \E rs \in [1..1 -> RewardMaps({"gas", "dining", "everything", "general"})],
             c \in BestCategories :
              best_in = <<[cards |-> CardList(rs), category |-> c]>>
       \/ \E k \in 0..MaxCards :
              \E rs \in [1..k -> RewardMaps({"gas", "general"})],
                 c \in BestCategories :
                  best_in = <<[cards |-> CardList(rs), category |-> c]>>
    /\ best_out = <<>>
    /\ geo_in = <<>>
    /\ geo_out = <<>>
    /\ AuxIdle

(* The call returns; `rates` records the rate each loop iteration resolved. *)
CallBest ==
    /\ best_in # <<>>
    /\ best_out = <<>>
    /\ best_out' = <<[result |-> get_best_card_for_category(best_in[1].cards,
                                                            best_in[1].category),
                      rates |-> [i \in DOMAIN best_in[1].cards |->
                                    CardRate(best_in[1].cards[i].rewards,
                                             best_in[1].category)]]>>
    /\ UNCHANGED <<now, dbvars, call, notified, best_in, geo_in, geo_out,
                   auxvars, owned, reqvars>>

SpecBest == InitBest /\ [][CallBest]_vars

----------------------------------------------------------------------------
(* The proximity scan run directly on bounded catalogs *)

(* The catalog with the POIs ps = <<latitude, radius>>; the i-th has id i. *)
GeoCatalog(ps) ==
    [i \in DOMAIN ps |-> [id |-> i, name |-> "poi", category |-> "gas",
                          latitude |-> ps[i][1], longitude |-> 0,
                          radius |-> ps[i][2]]]

(* Any catalog of at most MaxPois POIs on the latitude grid, any sample. *)
InitGeo ==
    /\ MainIdle
    /\ \E k \in 0..MaxPois :
           \E ps \in [1..k -> (0..MaxLat) \X (0..MaxRadius)], lat \in 0..MaxLat :
               geo_in = <<[all_pois |-> GeoCatalog(ps), latitude |-> lat]>>
    /\ geo_out = <<>>
    /\ best_in = <<>>
    /\ best_out = <<>>
    /\ AuxIdle

(* check_location from the catalog read to the throttle lookup, for u1:    *)
(* geo_out is the frame the handler is left with.                          *)
CallScan ==
    /\ geo_in # <<>>
    /\ geo_out = <<>>
    /\ geo_out' = <<AfterPois([IdleFrame EXCEPT !.user = "u1",
                                                !.latitude = geo_in[1].latitude],
                              geo_in[1].all_pois)>>
    /\ UNCHANGED <<now, dbvars, call, notified, best_in, best_out, geo_in,
                   auxvars, owned, reqvars>>

SpecGeo == InitGeo /\ [][CallScan]_vars


----------------------------------------------------------------------------
(* Properties of check_location *)

(* The records of notification_logs for one (user, POI) pair. *)
RecordsOf(user_id, poi_id) ==
    {i \in DOMAIN notification_logs :
        notification_logs[i].user_id = user_id
        /\ notification_logs[i].poi_id = poi_id}

(* The user holds a card that resolves to a positive rate for the category. *)
Eligible(user_id, category) ==
    \E i \in DOMAIN user_cards :
        user_cards[i].user_id = user_id
        /\ CardRate(user_cards[i].rewards, category) > 0

Responded(p, kind) ==
    call[p].pc = "done" /\ call[p].response[1].kind = kind

(* C1: with check_location calls served one after another, a call at an    *)
(* in-range POI is answered `throttled` exactly when a recommendation for  *)
(* the same user and POI was stamped at most 4 hours before the call; a    *)
(* call that is not throttled (none stamped yet, or the last one more than *)
(* 4 hours ago) and finds an eligible card goes on to insert, and the      *)
(* insert returns the recommendation and stamps it.                        *)
C1_ThrottleCycle ==
    [][\A p \in Procs :
        LET f == call[p]
            g == call'[p]
            key == <<f.user, f.nearby_poi.id>>
        IN  /\ (f.pc = "throttle" /\ g.pc # "throttle") =>
                   ((g.pc = "done" /\ g.response[1].kind = "throttled")
                    <=> (notified[key] # <<>>
                         /\ f.checked_at - notified[key][1] <= 4))
            /\ (f.pc = "throttle" /\ g.pc # "throttle"
                /\ ~(notified[key] # <<>> /\ f.checked_at - notified[key][1] <= 4))
                   => g.pc = "cards"
            /\ (f.pc = "cards" /\ g.pc # "cards"
                /\ Eligible(f.user, f.nearby_poi.category))
                   => g.pc = "insert"
            /\ (f.pc = "insert" /\ g.pc # "insert") =>
                   /\ g.pc = "done"
                   /\ g.response[1].kind = "recommendation"
                   /\ notified'[key] = <<f.log[1].timestamp>>
                   /\ f.log[1].timestamp <= now
      ]_vars

(* Recommended, throttled at exactly 4 hours, recommended again: a call    *)
(* has just been answered with a recommendation for a pair that already    *)
(* had a record.                                                           *)
C1_Witness ==
    \E p \in Procs :
        /\ Responded(p, "recommendation")
        /\ Cardinality(RecordsOf(call[p].user, call[p].nearby_poi.id)) = 2

(* C2: no two records of notification_logs for the same (user, POI) pair   *)
(* have timestamps less than 4 hours apart.                                *)
C2_OneActiveRecord ==
    \A i, j \in DOMAIN notification_logs :
        (i < j
         /\ notification_logs[i].user_id = notification_logs[j].user_id
         /\ notification_logs[i].poi_id = notification_logs[j].poi_id)
        => Abs(notification_logs[j].timestamp - notification_logs[i].timestamp) >= 4

(* C3: the throttle lookup of a call made at time t by user u with chosen  *)
(* POI p answers `throttled` if and only if notification_logs holds a      *)
(* record of u and p with timestamp >= t - 4h; otherwise the call goes on  *)
(* to read the wallet.                                                     *)
C3_ThrottledIff ==
    [][\A p \in Procs :
        LET f == call[p]
            g == call'[p]
        IN  (f.pc = "throttle" /\ g.pc # "throttle") =>
                LET hit == \E i \in RecordsOf(f.user, f.nearby_poi.id) :
                               notification_logs[i].timestamp >= f.checked_at - 4
                IN  /\ hit => (g.pc = "done" /\ g.response[1].kind = "throttled")
                    /\ ~hit => g.pc = "cards"
      ]_vars

(* A call has passed the throttle lookup although the log holds a record   *)
(* of another user at the same POI, stamped now.                           *)
C3_Witness ==
    \E p \in Procs :
        /\ call[p].pc = "cards"
        /\ \E i \in DOMAIN notification_logs :
              /\ notification_logs[i].user_id # call[p].user
              /\ notification_logs[i].poi_id = call[p].nearby_poi.id
              /\ notification_logs[i].timestamp = now

(* C4: a call whose chosen POI has a record in the window is answered      *)
(* `throttled` at the throttle lookup whatever the wallet holds; a         *)
(* `throttled` answer comes only from that lookup, and the step leaves     *)
(* notification_logs and user_cards unchanged and the call has inserted    *)
(* nothing.                                                                *)
C4_ThrottledFirst ==
    [][\A p \in Procs :
        LET f == call[p]
            g == call'[p]
        IN  /\ (f.pc = "throttle" /\ g.pc # "throttle"
                /\ \E i \in RecordsOf(f.user, f.nearby_poi.id) :
                       notification_logs[i].timestamp >= f.checked_at - 4)
                   => (g.pc = "done" /\ g.response[1].kind = "throttled")
            /\ (f.pc # "done" /\ g.pc = "done" /\ g.response[1].kind = "throttled")
                   => /\ f.pc = "throttle"
                      /\ g.appended = 0
                      /\ notification_logs' = notification_logs
                      /\ user_cards' = user_cards
      ]_vars

(* A call was throttled while its user's wallet was empty. *)
C4_Witness ==
    \E p \in Procs :
        /\ Responded(p, "throttled")
        /\ CardsOf(call[p].user) = <<>>

(* C5: every step leaves notification_logs unchanged or appends one record *)
(* to it; the appending step is a call's insert, the record carries that   *)
(* call's user, chosen POI and recommended card, and the call returns the  *)
(* recommendation; a call that ends has inserted one record if it returns  *)
(* a recommendation and none otherwise.                                    *)
C5_AppendOnly ==
    [][/\ \/ notification_logs' = notification_logs
          \/ \E p \in Procs :
                LET f == call[p]
                    g == call'[p]
                    rec == notification_logs'[Len(notification_logs')]
                IN  /\ f.pc = "insert"
                    /\ Len(notification_logs') = Len(notification_logs) + 1
                    /\ SubSeq(notification_logs', 1, Len(notification_logs))
                           = notification_logs
                    /\ rec.user_id = f.user
                    /\ rec.poi_id = f.nearby_poi.id
                    /\ g.pc = "done"
                    /\ g.response[1].kind = "recommendation"
                    /\ rec.card_recommended = g.response[1].card
                    /\ \E i \in DOMAIN user_cards :
                           /\ user_cards[i].card_name = rec.card_recommended
                           /\ CardRate(user_cards[i].rewards,
                                       f.nearby_poi.category) > 0
       /\ \A p \in Procs :
             (call[p].pc # "done" /\ call'[p].pc = "done") =>
                 call'[p].appended =
                     IF call'[p].response[1].kind = "recommendation" THEN 1 ELSE 0
      ]_vars

(* Two calls have returned recommendations and the log holds their two     *)
(* records.                                                                *)
C5_Witness ==
    /\ Len(notification_logs) = 2
    /\ \A p \in Procs : Responded(p, "recommendation")

(* C8: at the wallet read of an in-range, non-throttled call the answer is *)
(* no_cards iff the user's wallet is empty, no_match iff it is not empty   *)
(* and every card resolves to rate 0 for the POI's category, and otherwise *)
(* the call inserts and returns the recommendation; every answer is one of *)
(* the five outcomes, and found is false for not_found only.               *)
C8_Outcomes ==
    [][\A p \in Procs :
        LET f == call[p]
            g == call'[p]
            wallet == {i \in DOMAIN user_cards : user_cards[i].user_id = f.user}
            allZero == \A i \in wallet :
                           CardRate(user_cards[i].rewards, f.nearby_poi.category) = 0
        IN  /\ (f.pc = "cards" /\ g.pc # "cards") =>
                   /\ (g.pc = "done" /\ g.response[1].kind = "no_cards")
                          <=> wallet = {}
                   /\ (g.pc = "done" /\ g.response[1].kind = "no_match")
                          <=> (wallet # {} /\ allZero)
                   /\ g.pc = "insert" <=> (wallet # {} /\ ~allZero)
            /\ (f.pc = "insert" /\ g.pc # "insert") =>
                   (g.pc = "done" /\ g.response[1].kind = "recommendation")
            /\ g.pc = "done" =>
                   /\ g.response[1].kind \in {"not_found", "throttled", "no_cards",
                                              "no_match", "recommendation"}
                   /\ g.response[1].found <=> g.response[1].kind # "not_found"
                   /\ g.response[1].kind = "not_found" <=> g.nearby_poi = NoPoi
      ]_vars

(* One call has returned no_match (a wallet holding only the dining card)  *)
(* and another no_cards.                                                   *)
C8_Witness ==
    \E p, q \in Procs :
        /\ Responded(p, "no_match")
        /\ CardsOf(call[p].user) # <<>>
        /\ Responded(q, "no_cards")


----------------------------------------------------------------------------
(* Properties of the proximity scan *)

(* The POIs of the scanned catalog that hold the sample in their radius. *)
InRange ==
    {i \in DOMAIN geo_in[1].all_pois :
        calculate_distance(geo_in[1].latitude, 0,
                           geo_in[1].all_pois[i].latitude, 0)
            <= geo_in[1].all_pois[i].radius}

DistanceTo(i) ==
    calculate_distance(geo_in[1].latitude, 0, geo_in[1].all_pois[i].latitude, 0)

(* C6: the chosen POI is in range of the sample, no in-range POI is        *)
(* nearer, and every in-range POI at the same distance comes later in the  *)
(* catalog; POIs out of their own range play no part.                      *)
C6_NearestInRange ==
    (geo_out # <<>> /\ InRange # {}) =>
        \E i \in InRange :
            /\ geo_out[1].nearby_poi = geo_in[1].all_pois[i]
            /\ \A k \in InRange : DistanceTo(i) <= DistanceTo(k)
            /\ \A k \in InRange : DistanceTo(k) = DistanceTo(i) => i <= k

(* The chosen POI is the first of two in-range POIs at the same distance,  *)
(* and a nearer POI is out of its own range.                               *)
C6_Witness ==
    /\ geo_out # <<>>
    /\ \E i, k \in InRange :
          /\ i < k
          /\ DistanceTo(i) = DistanceTo(k)
          /\ geo_out[1].nearby_poi = geo_in[1].all_pois[i]
          /\ \E n \in DOMAIN geo_in[1].all_pois :
                n \notin InRange /\ DistanceTo(n) < DistanceTo(i)

(* C7: the answer after the scan is not_found, with found false, if and    *)
(* only if no POI of the catalog has distance <= its radius.               *)
C7_NotFoundIff ==
    geo_out # <<>> =>
        LET none == \A i \in DOMAIN geo_in[1].all_pois :
                        Abs(geo_in[1].all_pois[i].latitude - geo_in[1].latitude)
                            > geo_in[1].all_pois[i].radius
        IN  /\ none <=> (geo_out[1].pc = "done"
                         /\ geo_out[1].response = <<[found |-> FALSE,
                                                     kind |-> "not_found",
                                                     merchant |-> "none",
                                                     card |-> "none"]>>)
            /\ ~none <=> (geo_out[1].pc = "throttle"
                          /\ geo_out[1].nearby_poi # NoPoi)

(* A POI is found although every POI in range is at exactly its radius,    *)
(* which is not 0.                                                         *)
C7_Witness ==
    /\ geo_out # <<>>
    /\ geo_out[1].pc = "throttle"
    /\ \A i \in InRange :
          DistanceTo(i) = geo_in[1].all_pois[i].radius /\ DistanceTo(i) > 0

----------------------------------------------------------------------------
(* Properties of get_best_card_for_category *)

(* The rate the priority rule gives a reward map for a lower-case category. *)
PriorityRate(rewards, category) ==
    CASE category \in DOMAIN rewards -> rewards[category]
      [] category \notin DOMAIN rewards /\ "everything" \in DOMAIN rewards
             -> rewards["everything"]
      [] {category, "everything"} \cap DOMAIN rewards = {}
         /\ "general" \in DOMAIN rewards
             -> rewards["general"]
      [] OTHER -> 0

(* C9: for a lower-case category, every card resolves to the rate of the   *)
(* category's key if the map has it, else of `everything`, else of         *)
(* `general`, else 0; a single card is returned with that rate.            *)
C9_PriorityNotMax ==
    (best_out # <<>> /\ best_in[1].category = Lower(best_in[1].category)) =>
        LET cards == best_in[1].cards
            category == best_in[1].category
        IN  /\ \A i \in DOMAIN cards :
                   best_out[1].rates[i] = PriorityRate(cards[i].rewards, category)
            /\ Len(cards) = 1 =>
                   best_out[1].result =
                       IF PriorityRate(cards[1].rewards, category) > 0
                       THEN <<cards[1], PriorityRate(cards[1].rewards, category)>>
                       ELSE <<>>

(* A card with the category at a lower, positive rate than its             *)
(* `everything` and `general` rates is returned at the category's rate.    *)
C9_Witness ==
    /\ best_out # <<>>
    /\ Len(best_in[1].cards) = 1
    /\ best_in[1].category = "gas"
    /\ LET rewards == best_in[1].cards[1].rewards
       IN  /\ {"gas", "everything", "general"} \subseteq DOMAIN rewards
           /\ 0 < rewards["gas"]
           /\ rewards["gas"] < rewards["everything"]
           /\ rewards["gas"] < rewards["general"]
           /\ best_out[1].result = <<best_in[1].cards[1], rewards["gas"]>>

(* C10: the result is None if and only if every card resolves to rate 0;   *)
(* otherwise it is the first card in input order whose resolved rate is    *)
(* the greatest, together with that rate.                                  *)
C10_FirstGreatest ==
    best_out # <<>> =>
        LET cards == best_in[1].cards
            rate(i) == best_out[1].rates[i]
        IN  /\ best_out[1].result = <<>> <=> \A i \in DOMAIN cards : rate(i) = 0
            /\ best_out[1].result # <<>> =>
                   \E i \in DOMAIN cards :
                       /\ best_out[1].result = <<cards[i], rate(i)>>
                       /\ \A k \in DOMAIN cards : rate(k) <= rate(i)
                       /\ \A k \in DOMAIN cards : rate(k) = rate(i) => i <= k

(* Two cards share the greatest, positive rate and the first of them is    *)
(* returned.                                                               *)
C10_Witness ==
    /\ best_out # <<>>
    /\ \E i, k \in DOMAIN best_in[1].cards :
          /\ i < k
          /\ best_out[1].rates[i] = best_out[1].rates[k]
          /\ best_out[1].rates[i] > 0
          /\ best_out[1].result = <<best_in[1].cards[i], best_out[1].rates[i]>>




----------------------------------------------------------------------------
(* get_best_card_for_category on reward maps and categories of mixed case *)

CaseKeys == {"gas", "Gas", "everything", "general"}
CaseCategories == {"gas", "GAS"}

(* One card whose reward map may spell the gas key either way. *)
InitCase ==
    /\ MainIdle
    /\ \E rs \in [1..1 -> RewardMaps(CaseKeys)], c \in CaseCategories :
           best_in = <<[cards |-> CardList(rs), category |-> c]>>
    /\ best_out = <<>>
    /\ geo_in = <<>>
    /\ geo_out = <<>>
    /\ AuxIdle

SpecCase == InitCase /\ [][CallBest]_vars

(* C11: a card whose reward map holds the category under any letter case   *)
(* resolves to the rate of that key, not to the everything / general       *)
(* fallback or 0.                                                          *)
C11_CaseInsensitive ==
    best_out # <<>> =>
        \A i \in DOMAIN best_in[1].cards :
            LET rewards == best_in[1].cards[i].rewards
                ks == {k \in DOMAIN rewards : Lower(k) = Lower(best_in[1].category)}
            IN  ks # {} => best_out[1].rates[i] \in {rewards[k] : k \in ks}


----------------------------------------------------------------------------
(* The recommendation texts of check_location.  A text is the sequence of  *)
(* its pieces: one piece per character of a formatted number, one piece    *)
(* per literal part of an f-string or interpolated name.                   *)

MaxRewardRate == 14

DigitChar(d) == <<"0", "1", "2", "3", "4", "5", "6", "7", "8", "9">>[d + 1]

(* str() of a non-negative int. *)
RECURSIVE IntStr(_)
IntStr(n) ==
    IF n < 10 THEN <<DigitChar(n)>>
    ELSE IntStr(n \div 10) \o <<DigitChar(n % 10)>>

(* str() of a float of integral value: float(3) formats as 3.0. *)
FloatStr(x) == IntStr(x) \o <<".", "0">>

(* reward_text: best_rate is the float get_best_card_for_category built    *)
(* with float(rewards[...]); int(best_rate) truncates it.                  *)
RewardText(best_rate) ==
    IF best_rate < 10
    THEN FloatStr(best_rate) \o <<"% back">>
    ELSE IntStr(best_rate) \o <<"x points">>

(* The Recommendation returned for nearby_poi, best_card and best_rate. *)
Recommendation(nearby_poi, card_name, best_rate) ==
    [merchant_name |-> nearby_poi.name,
     category |-> nearby_poi.category,
     recommended_card |-> card_name,
     reward_rate |-> RewardText(best_rate),
     message |-> <<"Hey, you're at ", nearby_poi.name, "! Use ", card_name,
                   " to get ">> \o RewardText(best_rate) \o <<".">>]

(* Any POI of the catalog, any card name, any integral rate a match can    *)
(* have.                                                                   *)
InitFormat ==
    /\ MainIdle
    /\ PureIdle
    /\ DistIdle /\ CardsIdle /\ AuthIdle /\ WalletIdle /\ ReqIdle
    /\ \E i \in DOMAIN Catalog, c \in CardIds, r \in 1..MaxRewardRate :
           fmt_in = <<[nearby_poi |-> Catalog[i],
                       card_name |-> CreditCards[c].name,
                       best_rate |-> r]>>
    /\ fmt_out = <<>>

FormatRecommendation ==
    /\ fmt_in # <<>>
    /\ fmt_out = <<>>
    /\ fmt_out' = <<Recommendation(fmt_in[1].nearby_poi, fmt_in[1].card_name,
                                   fmt_in[1].best_rate)>>
    /\ UNCHANGED <<now, dbvars, call, notified, purevars, fmt_in, dist_in,
                   dist_out, credit_cards, cards_call, users, http_out,
                   wallet_out, owned, reqvars>>

SpecFormat == InitFormat /\ [][FormatRecommendation]_vars

(* C12: the reward text is the rate followed by `% back` when the rate is  *)
(* below 10 and the whole part of the rate followed by `x points` from 10  *)
(* on (3 gives `3% back`, 10 gives `10x points`), and the message embeds   *)
(* the merchant name, the card name and that text.                         *)
C12_RewardText ==
    fmt_out # <<>> =>
        LET r == fmt_in[1].best_rate
            text == IF r < 10 THEN IntStr(r) \o <<"% back">>
                              ELSE IntStr(r) \o <<"x points">>
        IN  /\ fmt_out[1].reward_rate = text
            /\ fmt_out[1].message =
                   <<"Hey, you're at ", fmt_in[1].nearby_poi.name, "! Use ",
                     fmt_in[1].card_name, " to get ">> \o text \o <<".">>


----------------------------------------------------------------------------
(* check_location on samples at and beyond the pole *)

(* A catalog with one POI at the pole. *)
PolarCatalog ==
    << [id |-> 1, name |-> "Polar Station", category |-> "gas",
        latitude |-> QuarterTurn, longitude |-> 0, radius |-> 1] >>

(* The pole itself and the first latitude out of range.  LocationCheck     *)
(* declares latitude and longitude as plain floats, so both reach the      *)
(* handler.                                                                *)
PolarLats == {QuarterTurn, QuarterTurn + 1}

InitPolar ==
    /\ now = 0
    /\ poi_locations = PolarCatalog
    /\ user_cards = <<UserCard("u2", "blue")>>
    /\ notification_logs = <<>>
    /\ call = [p \in Procs |-> IdleFrame]
    /\ notified = [k \in Users \X PoiIds |-> <<>>]
    /\ PureIdle
    /\ AuxIdle

NextPolar ==
    \/ \E p \in Procs, u \in Users, lat \in PolarLats : FindPois(p, u, lat)
    \/ \E p \in Procs : CheckThrottle(p)
    \/ \E p \in Procs : FindCards(p)
    \/ \E p \in Procs : InsertLog(p)
    \/ \E p \in Procs : Return(p)

SpecPolar == InitPolar /\ [][NextPolar]_vars

(* C13: a request whose latitude is out of range is refused with a         *)
(* validation error: it never reaches the scan, the throttle lookup, the   *)
(* wallet or the insert, gets none of the five outcomes and inserts        *)
(* nothing.                                                                *)
C13_OutOfRangeRejected ==
    \A p \in Procs :
        Abs(call[p].latitude) > QuarterTurn =>
            /\ call[p].pc = "done"
            /\ call[p].response[1].kind = "validation_error"
            /\ call[p].appended = 0


----------------------------------------------------------------------------
(* check_location on an empty poi_locations collection: the lazy seeding   *)

(* The list initialize_poi_locations builds, cut to the two POIs of        *)
(* Catalog.  Every POILocation gets a fresh uuid4: the i-th POI built by   *)
(* the call in slot p has the id below.                                    *)
DefaultPois(p) ==
    [i \in DOMAIN Catalog |->
        [Catalog[i] EXCEPT !.id = (p - 1) * Len(Catalog) + i]]

SeedPoiIds == 1..(Cardinality(Procs) * Len(Catalog))

(* The first poi_locations.find() returns nothing: the handler calls       *)
(* initialize_poi_locations, which builds its list and awaits the first    *)
(* insert.                                                                 *)
FindPoisEmpty(p, user, lat) ==
    /\ call[p].pc = "idle"
    /\ Len(notification_logs) + Cardinality(InFlight) < MaxLogs
    /\ poi_locations = <<>>
    /\ call' = [call EXCEPT ![p] =
                   [IdleFrame EXCEPT !.pc = "seed", !.user = user,
                                     !.latitude = lat]]
    /\ UNCHANGED <<now, dbvars, notified, purevars, auxvars, owned, reqvars>>

(* One poi_locations.insert_one of the `for poi in pois` loop. *)
SeedInsert(p) ==
    /\ call[p].pc = "seed"
    /\ poi_locations' = Append(poi_locations,
                               DefaultPois(p)[call[p].seeded + 1])
    /\ call' = [call EXCEPT ![p] =
                   [@ EXCEPT !.seeded = @ + 1,
                             !.pc = IF call[p].seeded + 1 = Len(Catalog)
                                    THEN "reread" ELSE "seed"]]
    /\ UNCHANGED <<now, user_cards, notification_logs, notified, purevars,
                   auxvars, owned, reqvars>>

(* The second poi_locations.find() and the code that follows it. *)
RefindPois(p) ==
    /\ call[p].pc = "reread"
    /\ call' = [call EXCEPT ![p] =
                   AfterPois([call[p] EXCEPT !.seeded = 0], poi_locations)]
    /\ UNCHANGED <<now, dbvars, notified, purevars, auxvars, owned, reqvars>>

InitSeed ==
    /\ now = 0
    /\ poi_locations = <<>>
    /\ user_cards = <<UserCard("u2", "blue")>>
    /\ notification_logs = <<>>
    /\ call = [p \in Procs |-> IdleFrame]
    /\ notified = [k \in Users \X SeedPoiIds |-> <<>>]
    /\ PureIdle
    /\ AuxIdle

NextSeed ==
    \/ \E p \in Procs, u \in Users, lat \in SampleLats : FindPoisEmpty(p, u, lat)
    \/ \E p \in Procs : SeedInsert(p)
    \/ \E p \in Procs : RefindPois(p)
    \/ \E p \in Procs, u \in Users, lat \in SampleLats : FindPois(p, u, lat)
    \/ \E p \in Procs : CheckThrottle(p)
    \/ \E p \in Procs : FindCards(p)
    \/ \E p \in Procs : InsertLog(p)
    \/ \E p \in Procs : Return(p)

SpecSeed == InitSeed /\ [][NextSeed]_vars

(* C14: starting from an empty poi_locations, under any interleaving of    *)
(* check_location calls the default POIs are inserted at most once: the    *)
(* catalog never holds two copies of a default POI.                        *)
C14_SeededOnce ==
    \A i, j \in DOMAIN poi_locations :
        i < j => poi_locations[i].name # poi_locations[j].name


----------------------------------------------------------------------------
(* get_all_cards on an empty credit_cards collection *)

(* The names of the cards initialize_credit_cards builds, in list order. *)
DefaultCards ==
    <<"Blue Cash Everyday", "Freedom Flex", "Discover it Cash Back",
      "Double Cash", "SavorOne", "Sapphire Preferred", "Gold Card">>

(* The first credit_cards.find(): a non-empty result is returned as it is, *)
(* an empty one starts initialize_credit_cards.                            *)
GetCardsFind(p) ==
    /\ cards_call[p].pc = "idle"
    /\ cards_call' = [cards_call EXCEPT ![p] =
           IF credit_cards # <<>>
           THEN [@ EXCEPT !.pc = "done", !.result = credit_cards]
           ELSE [@ EXCEPT !.pc = "seed"]]
    /\ UNCHANGED <<now, dbvars, call, notified, purevars, fmt_in, fmt_out,
                   dist_in, dist_out, credit_cards, users, http_out,
                   wallet_out, owned, reqvars>>

(* One credit_cards.insert_one of the `for card in cards` loop; the card   *)
(* carries the uuid4 it was built with.                                    *)
CardsSeedInsert(p) ==
    /\ cards_call[p].pc = "seed"
    /\ credit_cards' = Append(credit_cards,
                              [id |-> <<p, cards_call[p].next + 1>>,
                               name |-> DefaultCards[cards_call[p].next + 1]])
    /\ cards_call' = [cards_call EXCEPT ![p] =
           [@ EXCEPT !.next = @ + 1,
                     !.pc = IF cards_call[p].next + 1 = Len(DefaultCards)
                            THEN "reread" ELSE "seed"]]
    /\ UNCHANGED <<now, dbvars, call, notified, purevars, fmt_in, fmt_out,
                   dist_in, dist_out, users, http_out, wallet_out, owned,
                   reqvars>>

(* The second credit_cards.find() and the return. *)
GetCardsRefind(p) ==
    /\ cards_call[p].pc = "reread"
    /\ cards_call' = [cards_call EXCEPT ![p] =
           [@ EXCEPT !.pc = "done", !.next = 0, !.result = credit_cards]]
    /\ UNCHANGED <<now, dbvars, call, notified, purevars, fmt_in, fmt_out,
                   dist_in, dist_out, credit_cards, users, http_out,
                   wallet_out, owned, reqvars>>

(* The response has been sent; the slot is free for the next request. *)
GetCardsReturn(p) ==
    /\ cards_call[p].pc = "done"
    /\ cards_call' = [cards_call EXCEPT ![p] = CardsIdleFrame]
    /\ UNCHANGED <<now, dbvars, call, notified, purevars, fmt_in, fmt_out,
                   dist_in, dist_out, credit_cards, users, http_out,
                   wallet_out, owned, reqvars>>

InitCards ==
    /\ MainIdle
    /\ PureIdle
    /\ FmtIdle /\ DistIdle /\ AuthIdle /\ WalletIdle /\ ReqIdle
    /\ credit_cards = <<>>
    /\ cards_call = [p \in Procs |-> CardsIdleFrame]

NextCards ==
    \/ \E p \in Procs : GetCardsFind(p)
    \/ \E p \in Procs : CardsSeedInsert(p)
    \/ \E p \in Procs : GetCardsRefind(p)
    \/ \E p \in Procs : GetCardsReturn(p)

SpecCards == InitCards /\ [][NextCards]_vars

(* C15: starting from an empty credit_cards, under any interleaving of     *)
(* get_all_cards calls every call returns exactly the 7 default cards.     *)
C15_SevenCards ==
    \A p \in Procs :
        cards_call[p].pc = "done" => Len(cards_call[p].result) = 7


----------------------------------------------------------------------------
(* check_location with a store that can fail.  An awaited store operation  *)
(* that fails raises; check_location has no try / except, so the exception *)
(* ends the coroutine and the request is answered with a server error.     *)

ErrorResponse ==
    [found |-> FALSE, kind |-> "error", merchant |-> "none", card |-> "none"]

(* The first poi_locations.find() raises. *)
FindPoisFails(p, user, lat) ==
    /\ call[p].pc = "idle"
    /\ Len(notification_logs) + Cardinality(InFlight) < MaxLogs
    /\ call' = [call EXCEPT ![p] =
                   [IdleFrame EXCEPT !.pc = "done", !.user = user,
                                     !.latitude = lat,
                                     !.response = <<ErrorResponse>>]]
    /\ UNCHANGED <<now, dbvars, notified, purevars, auxvars, owned, reqvars>>

(* Faulty variant: the exception is swallowed and the handler returns what *)
(* it would have returned after the operation.                             *)
StoreFailsSilently(p) ==
    /\ call[p].pc \in {"throttle", "cards", "insert"}
    /\ call' = [call EXCEPT ![p] =
                   [@ EXCEPT !.pc = "done", !.four_hours_ago = 0,
                             !.checked_at = 0,
                             !.response =
                                 <<[found |-> TRUE, kind |-> "recommendation",
                                    merchant |-> call[p].nearby_poi.name,
                                    card |-> "none"]>>]]
    /\ UNCHANGED <<now, dbvars, notified, purevars, auxvars, owned, reqvars>>

(* The pending notification_logs.find_one, user_cards.find or              *)
(* notification_logs.insert_one raises: nothing is written and nothing     *)
(* after the await runs.                                                   *)
StoreFails(p) ==
    /\ call[p].pc \in {"throttle", "cards", "insert"}
    /\ call' = [call EXCEPT ![p] =
                   [@ EXCEPT !.pc = "done", !.four_hours_ago = 0,
                             !.checked_at = 0,
                             !.response = <<ErrorResponse>>]]
    /\ UNCHANGED <<now, dbvars, notified, purevars, auxvars, owned, reqvars>>

NextFail ==
    \/ \E p \in Procs, u \in Users, lat \in SampleLats : FindPois(p, u, lat)
    \/ \E p \in Procs, u \in Users, lat \in SampleLats : FindPoisFails(p, u, lat)
    \/ \E p \in Procs : CheckThrottle(p)
    \/ \E p \in Procs : FindCards(p)
    \/ \E p \in Procs : InsertLog(p)
    \/ \E p \in Procs : StoreFails(p)
    \/ \E p \in Procs : Return(p)

SpecFail == Init /\ [][NextFail]_vars

(* C16: a check_location call whose store operation fails is answered with *)
(* an error and does nothing more: a step that leaves the throttle lookup, *)
(* the wallet read or the insert either has the effect of the operation or *)
(* ends the call with the error response and the store unchanged; an       *)
(* errored call only returns; and a recommendation is answered only by the *)
(* step that appends its record to notification_logs.                      *)
C16_FailsVisibly ==
    [][\A p \in Procs :
        LET f == call[p]
            g == call'[p]
            failed == /\ g.pc = "done"
                      /\ g.response[1].kind = "error"
                      /\ UNCHANGED dbvars
                      /\ g.appended = f.appended
        IN  /\ (f.pc = "idle" /\ g.pc # "idle") =>
                   failed \/ g = AfterPois([IdleFrame EXCEPT !.user = g.user,
                                                            !.latitude = g.latitude],
                                           poi_locations)
            /\ (f.pc = "throttle" /\ g.pc # "throttle") =>
                   \/ failed
                   \/ g.pc = "cards"
                   \/ g.pc = "done" /\ g.response[1].kind = "throttled"
            /\ (f.pc = "cards" /\ g.pc # "cards") =>
                   \/ failed
                   \/ g.pc = "insert"
                   \/ g.pc = "done" /\ g.response[1].kind \in {"no_cards", "no_match"}
            /\ (f.pc = "insert" /\ g.pc # "insert") =>
                   \/ failed
                   \/ /\ g.pc = "done"
                      /\ g.response[1].kind = "recommendation"
                      /\ notification_logs' = Append(notification_logs, f.log[1])
            /\ (f.pc # "done" /\ g.pc = "done"
                /\ g.response[1].kind = "recommendation") =>
                   /\ f.pc = "insert"
                   /\ notification_logs' = Append(notification_logs, f.log[1])
            /\ (f.pc = "done" /\ f.response[1].kind = "error" /\ g # f) =>
                   g = IdleFrame /\ UNCHANGED dbvars
      ]_vars

(* The insert of a matched call has failed: the call is answered with the  *)
(* error, and notification_logs holds no record of its user and POI.       *)
C16_Witness ==
    \E p \in Procs :
        /\ Responded(p, "error")
        /\ call[p].log # <<>>
        /\ call[p].appended = 0
        /\ RecordsOf(call[p].user, call[p].nearby_poi.id) = {}


----------------------------------------------------------------------------
(* The wallet handlers of both users, served one request at a time *)

(* Faulty variant: the find without its `user_id` filter. *)
get_user_cards_unfiltered(user) ==
    /\ wallet_out' = <<[user |-> user, cards |-> user_cards]>>
    /\ UNCHANGED <<now, dbvars, call, notified, purevars, fmt_in, fmt_out,
                   dist_in, dist_out, credit_cards, cards_call, users,
                   http_out, owned, reqvars>>

(* get_user_cards: the documents of user_cards whose user_id is the        *)
(* caller's, in store order.                                               *)
get_user_cards(user) ==
    /\ wallet_out' = <<[user |-> user, cards |-> CardsOf(user)]>>
    /\ UNCHANGED <<now, dbvars, call, notified, purevars, fmt_in, fmt_out,
                   dist_in, dist_out, credit_cards, cards_call, users,
                   http_out, owned, reqvars>>

NextWallet ==
    \/ \E u \in Users, c \in CardIds : add_user_card(u, c)
    \/ \E u \in Users, c \in CardIds : remove_user_card(u, c)
    \/ \E u \in Users : get_user_cards(u)

SpecWallet == Init /\ [][NextWallet]_vars

(* The card ids of a list of wallet entries. *)
CardIdsOf(cards) == {cards[i].card_id : i \in DOMAIN cards}

(* C17: get_user_cards returns exactly the cards its caller has added and  *)
(* not removed since, one entry per card (k entries after k distinct adds, *)
(* one fewer after a remove), every entry the caller's own; and a wallet   *)
(* request of one user leaves the wallet of every other user as it was.    *)
C17_WalletExact ==
    [][/\ \A u \in Users :
            /\ owned'[u] = owned[u] => CardsOf(u)' = CardsOf(u)
            /\ CardIdsOf(CardsOf(u)') = owned'[u]
            /\ Len(CardsOf(u)') = Cardinality(owned'[u])
            /\ \A c \in owned'[u] \ owned[u] :
                   Len(CardsOf(u)') = Len(CardsOf(u)) + 1
            /\ \A c \in owned[u] \ owned'[u] :
                   Len(CardsOf(u)') = Len(CardsOf(u)) - 1
       /\ wallet_out' # wallet_out =>
            LET out == wallet_out'[1]
            IN  /\ CardIdsOf(out.cards) = owned[out.user]
                /\ Len(out.cards) = Cardinality(owned[out.user])
                /\ \A i \in DOMAIN out.cards : out.cards[i].user_id = out.user
                /\ user_cards' = user_cards
      ]_vars

(* A user is shown a one-card wallet, which is the wallet they have, while *)
(* the other user holds both catalog cards.                                *)
C17_Witness ==
    /\ wallet_out # <<>>
    /\ Len(wallet_out[1].cards) = 1
    /\ wallet_out[1].cards = CardsOf(wallet_out[1].user)
    /\ \E v \in Users \ {wallet_out[1].user} : Len(CardsOf(v)) = 2


----------------------------------------------------------------------------
(* The protected routes behind Depends(get_current_user) *)

(* What a request can carry as credentials: no Authorization header, a     *)
(* token that does not decode, an expired token, and unexpired tokens of a *)
(* stored user and of a user id that is not (or no longer) in db.users.    *)
Credentials ==
    { [kind |-> "none",    user_id |-> "none"],
      [kind |-> "garbage", user_id |-> "none"],
      [kind |-> "expired", user_id |-> "u1"],
      [kind |-> "valid",   user_id |-> "u0"],
      [kind |-> "valid",   user_id |-> "u1"] }

(* Faulty variant: no `if not user` test after the find_one. *)
get_current_user_unchecked(cred) ==
    IF cred.kind = "none" THEN [status |-> 403, user |-> "none"]
    ELSE IF cred.kind \in {"garbage", "expired"}
    THEN [status |-> 401, user |-> "none"]
    ELSE [status |-> 200, user |-> cred.user_id]

(* HTTPBearer() refuses a request without credentials with 403;            *)
(* get_current_user answers 401 when jwt.decode raises (expired or not a   *)
(* token) and when db.users holds no user of the token's user_id, and      *)
(* returns the user otherwise.                                             *)
get_current_user(cred) ==
    IF cred.kind = "none" THEN [status |-> 403, user |-> "none"]
    ELSE IF cred.kind \in {"garbage", "expired"}
    THEN [status |-> 401, user |-> "none"]
    ELSE IF \E i \in DOMAIN users : users[i].id = cred.user_id
    THEN [status |-> 200, user |-> cred.user_id]
    ELSE [status |-> 401, user |-> "none"]

ProtectedOps ==
    {"get_profile", "update_questionnaire", "add_user_card", "get_user_cards",
     "remove_user_card", "check_location"}

(* The dependency raises: the route function is not called. *)
Refuse(op, cred) ==
    /\ get_current_user(cred).status # 200
    /\ http_out' = <<[op |-> op, cred |-> cred,
                      status |-> get_current_user(cred).status]>>
    /\ UNCHANGED <<now, dbvars, call, notified, purevars, fmt_in, fmt_out,
                   dist_in, dist_out, credit_cards, cards_call, users,
                   wallet_out, owned, reqvars>>

(* get_profile returns fields of current_user. *)
get_profile(user) ==
    /\ \E i \in DOMAIN users : users[i].id = user
    /\ UNCHANGED vars

(* update_questionnaire: update_one with $set on the caller's document. *)
update_questionnaire(user, data) ==
    /\ users' = [i \in DOMAIN users |->
                    IF users[i].id = user
                    THEN [users[i] EXCEPT !.questionnaire = <<data>>]
                    ELSE users[i]]
    /\ UNCHANGED <<now, dbvars, call, notified, purevars, fmt_in, fmt_out,
                   dist_in, dist_out, credit_cards, cards_call, http_out,
                   wallet_out, owned, reqvars>>

(* The requests that pass the dependency run as the user it returned;      *)
(* location checks are served one at a time.                               *)
NextAuth ==
    \/ \E op \in ProtectedOps, cred \in Credentials : Refuse(op, cred)
    \/ \E cred \in Credentials :
           /\ get_current_user(cred).status = 200
           /\ LET u == get_current_user(cred).user
              IN  \/ get_profile(u)
                  \/ update_questionnaire(u, "filled")
                  \/ \E c \in CardIds : add_user_card(u, c)
                  \/ \E c \in CardIds : remove_user_card(u, c)
                  \/ get_user_cards(u)
                  \/ \E p \in Procs, lat \in SampleLats : FindPoisSeq(p, u, lat)
    \/ \E p \in Procs : CheckThrottle(p)
    \/ \E p \in Procs : FindCards(p)
    \/ \E p \in Procs : InsertLog(p)
    \/ \E p \in Procs : Return(p)

SpecAuth == Init /\ [][NextAuth]_vars

UserIds == {users[i].id : i \in DOMAIN users}

(* C18: a request to a protected route without an unexpired token of a     *)
(* stored user is answered 401 or 403 and changes nothing in db.users,     *)
(* the wallets, the notification log or the running calls; and every       *)
(* wallet entry, log record and running call belongs to a stored user.     *)
C18_Unauthenticated ==
    [][/\ http_out' # http_out =>
            /\ http_out'[1].status \in {401, 403}
            /\ ~(http_out'[1].cred.kind = "valid"
                  /\ http_out'[1].cred.user_id \in UserIds)
            /\ UNCHANGED <<dbvars, users, call, notified, owned, credit_cards>>
       /\ \A i \in DOMAIN user_cards' : user_cards'[i].user_id \in UserIds
       /\ \A i \in DOMAIN notification_logs' :
              notification_logs'[i].user_id \in UserIds
       /\ \A p \in Procs : call'[p].pc # "idle" => call'[p].user \in UserIds
      ]_vars

(* A wallet removal carrying an expired token of u1 has just been refused  *)
(* with 401 while u1 holds a card and has a notification on record.        *)
C18_Witness ==
    /\ http_out # <<>>
    /\ http_out[1].op = "remove_user_card"
    /\ http_out[1].cred.kind = "expired"
    /\ http_out[1].status = 401
    /\ CardsOf("u1") # <<>>
    /\ \E i \in DOMAIN notification_logs : notification_logs[i].user_id = "u1"


----------------------------------------------------------------------------
(* calculate_distance called directly on in-range points *)

Lats == (-QuarterTurn)..QuarterTurn
Lons == (-2 * QuarterTurn)..(2 * QuarterTurn)

(* Pairs of in-range points on one meridian, on opposite meridians or on   *)
(* the equator.                                                            *)
InitDist ==
    /\ MainIdle
    /\ PureIdle
    /\ FmtIdle /\ CardsIdle /\ AuthIdle /\ WalletIdle /\ ReqIdle
    /\ \E lat1, lat2 \in Lats, lon1, lon2 \in Lons :
           /\ \/ Abs(lon2 - lon1) \in {0, 2 * QuarterTurn, 4 * QuarterTurn}
              \/ lat1 = 0 /\ lat2 = 0
           /\ dist_in = <<[lat1 |-> lat1, lon1 |-> lon1,
                           lat2 |-> lat2, lon2 |-> lon2]>>
    /\ dist_out = <<>>

Returned(metres) == [returned |-> TRUE, metres |-> metres]
Raised == [returned |-> FALSE, metres |-> 0]

(* The call in both argument orders, and on the first point with itself.   *)
(* a is the same float in both orders, so both calls raise or neither.     *)
CallDistance ==
    /\ dist_in # <<>>
    /\ dist_out = <<>>
    /\ LET i == dist_in[1]
           aa == Returned(calculate_distance(i.lat1, i.lon1, i.lat1, i.lon1))
       IN  \/ dist_out' =
                 <<[ab |-> Returned(calculate_distance(i.lat1, i.lon1,
                                                       i.lat2, i.lon2)),
                    ba |-> Returned(calculate_distance(i.lat2, i.lon2,
                                                       i.lat1, i.lon1)),
                    aa |-> aa]>>
           \/ /\ CanRaise(i.lat1, i.lon1, i.lat2, i.lon2)
              /\ dist_out' = <<[ab |-> Raised, ba |-> Raised, aa |-> aa]>>
    /\ UNCHANGED <<now, dbvars, call, notified, purevars, fmt_in, fmt_out,
                   dist_in, credit_cards, cards_call, users, http_out,
                   wallet_out, owned, reqvars>>

SpecDist == InitDist /\ [][CallDistance]_vars

(* C19: for in-range points, antipodal and across the date line included,  *)
(* calculate_distance returns a value in both argument orders, the same    *)
(* one, never negative, and 0 for a point and itself.                      *)
C19_DistanceSound ==
    dist_out # <<>> =>
        /\ dist_out[1].ab.returned /\ dist_out[1].ba.returned
        /\ dist_out[1].aa.returned
        /\ dist_out[1].ab.metres = dist_out[1].ba.metres
        /\ dist_out[1].ab.metres >= 0
        /\ dist_out[1].aa.metres = 0


----------------------------------------------------------------------------
(* check_location requests served one at a time, a response staying in     *)
(* its slot until it is collected                                          *)

FindPoisServed(p, user, lat) ==
    /\ InFlight = {}
    /\ FindPois(p, user, lat)

NextServed ==
    \/ \E p \in Procs, u \in Users, lat \in SampleLats : FindPoisServed(p, u, lat)
    \/ \E p \in Procs : CheckThrottle(p)
    \/ \E p \in Procs : FindCards(p)
    \/ \E p \in Procs : InsertLog(p)
    \/ \E p \in Procs : Return(p)
    \/ \E u \in WalletUsers, c \in CardIds : add_user_card(u, c)
    \/ \E u \in WalletUsers, c \in CardIds : remove_user_card(u, c)
    \/ Tick

SpecServed == Init /\ [][NextServed]_vars

(* C20: a throttled answer writes nothing, so the window stays measured    *)
(* from the last recommendation: a call whose throttle lookup is made more *)
(* than 4 hours after the last recommendation of its user and POI goes on  *)
(* to the wallet, whatever throttled calls came in between.                *)
C20_NoExtension ==
    [][\A p \in Procs :
        LET f == call[p]
            g == call'[p]
            key == <<f.user, f.nearby_poi.id>>
        IN  /\ (f.pc = "throttle" /\ g.pc # "throttle"
                /\ notified[key] # <<>>
                /\ f.checked_at - notified[key][1] > 4)
                   => g.pc = "cards"
            /\ (f.pc = "throttle" /\ g.pc = "done"
                /\ g.response[1].kind = "throttled")
                   => /\ notification_logs' = notification_logs
                      /\ notified' = notified
      ]_vars

(* A throttled answer for a pair is still in its slot while a later call   *)
(* for the same pair, made more than 4 hours after the pair's last         *)
(* recommendation, has passed the throttle lookup.                         *)
C20_Witness ==
    \E p, q \in Procs :
        /\ Responded(q, "throttled")
        /\ call[p].pc = "cards"
        /\ call[p].user = call[q].user
        /\ call[p].nearby_poi.id = call[q].nearby_poi.id
        /\ notified[<<call[p].user, call[p].nearby_poi.id>>] # <<>>
        /\ now - notified[<<call[p].user, call[p].nearby_poi.id>>][1] > 4


----------------------------------------------------------------------------
(* Outcomes that start no cooldown *)

(* C21: a no_cards or no_match answer writes nothing and stamps nothing,   *)
(* so it starts no cooldown: a call is throttled only when a               *)
(* recommendation for its user and POI has been stamped, and a call that   *)
(* is not throttled and whose user holds a card of positive rate for the   *)
(* POI's category goes on to the insert and is answered with the           *)
(* recommendation, however soon after the declined call.                   *)
C21_DeclineNoCooldown ==
    [][\A p \in Procs :
        LET f == call[p]
            g == call'[p]
            key == <<f.user, f.nearby_poi.id>>
        IN  /\ (f.pc = "cards" /\ g.pc = "done"
                /\ g.response[1].kind \in {"no_cards", "no_match"})
                   => /\ notification_logs' = notification_logs
                      /\ notified' = notified
            /\ (f.pc = "throttle" /\ g.pc = "done"
                /\ g.response[1].kind = "throttled")
                   => /\ notified[key] # <<>>
                      /\ RecordsOf(f.user, f.nearby_poi.id) # {}
            /\ (f.pc = "throttle" /\ g.pc # "throttle"
                /\ RecordsOf(f.user, f.nearby_poi.id) = {})
                   => g.pc = "cards"
            /\ (f.pc = "cards" /\ g.pc # "cards"
                /\ Eligible(f.user, f.nearby_poi.category))
                   => g.pc = "insert"
            /\ (f.pc = "insert" /\ g.pc # "insert")
                   => g.pc = "done" /\ g.response[1].kind = "recommendation"
      ]_vars

(* A no_cards answer for a pair is still in its slot, the user has since   *)
(* added a card, and the next call for the pair has been answered with a   *)
(* recommendation, all at the same hour.                                   *)
C21_Witness ==
    \E p, q \in Procs :
        /\ now = 0
        /\ Responded(q, "no_cards")
        /\ Responded(p, "recommendation")
        /\ call[p].user = call[q].user
        /\ call[p].nearby_poi.id = call[q].nearby_poi.id
        /\ Cardinality(RecordsOf(call[p].user, call[p].nearby_poi.id)) = 1


----------------------------------------------------------------------------
(* One POI per call *)

(* The POIs of the catalog within their radius of the latitude. *)
InRangeOf(lat) ==
    {i \in DOMAIN poi_locations :
        Abs(poi_locations[i].latitude - lat) <= poi_locations[i].radius}

(* The in-range POIs no other in-range POI is nearer than. *)
NearestOf(lat) ==
    {i \in InRangeOf(lat) :
        \A j \in InRangeOf(lat) :
            Abs(poi_locations[i].latitude - lat)
                <= Abs(poi_locations[j].latitude - lat)}

(* C22: a call considers the nearest in-range POI only: the throttle       *)
(* lookup is made for that POI and, when it finds a record in the window,  *)
(* the call is answered `throttled` for it whatever the log holds for the  *)
(* other in-range POIs; and every record written is for the nearest        *)
(* in-range POI of the call that writes it.                                *)
C22_NearestOnly ==
    [][\A p \in Procs :
        LET f == call[p]
            g == call'[p]
        IN  /\ g.pc \in {"throttle", "cards", "insert"} =>
                   \E i \in NearestOf(g.latitude) :
                       g.nearby_poi = poi_locations[i]
            /\ (f.pc = "throttle" /\ g.pc # "throttle"
                /\ \E i \in NearestOf(f.latitude) :
                       \E k \in RecordsOf(f.user, poi_locations[i].id) :
                           notification_logs[k].timestamp >= f.checked_at - 4)
                   => /\ g.pc = "done"
                      /\ g.response[1].kind = "throttled"
                      /\ g.response[1].merchant = f.nearby_poi.name
                      /\ notification_logs' = notification_logs
            /\ (f.pc = "insert" /\ g.pc # "insert") =>
                   /\ Len(notification_logs') = Len(notification_logs) + 1
                   /\ LET rec == notification_logs'[Len(notification_logs')]
                      IN  /\ rec.user_id = f.user
                          /\ \E i \in NearestOf(f.latitude) :
                                 rec.poi_id = poi_locations[i].id
            /\ (notification_logs' # notification_logs =>
                   \E q \in Procs : call[q].pc = "insert" /\ call'[q].pc = "done")
      ]_vars

(* A call at a latitude with two POIs in range has been answered           *)
(* `throttled` for the nearer one while the log holds no record of its     *)
(* user for the other.                                                     *)
C22_Witness ==
    \E p \in Procs :
        /\ Responded(p, "throttled")
        /\ Cardinality(InRangeOf(call[p].latitude)) = 2
        /\ \E i \in InRangeOf(call[p].latitude) :
              /\ poi_locations[i].id # call[p].nearby_poi.id
              /\ RecordsOf(call[p].user, poi_locations[i].id) = {}


----------------------------------------------------------------------------
(* Calls that read the catalog while another call is seeding it *)

(* C23: under any interleaving with a call that is seeding the default     *)
(* catalog, every call computes its outcome from the full catalog: a call  *)
(* is answered not_found only at a latitude out of range of every default  *)
(* POI, and a call that has chosen a POI has chosen the nearest in-range   *)
(* one of the default catalog.                                             *)
C23_FullCatalog ==
    \A p \in Procs :
        LET full == NearbyPoi(Catalog, call[p].latitude)
        IN  /\ Responded(p, "not_found") => full = NoPoi
            /\ call[p].pc \in {"throttle", "cards", "insert"} =>
                   call[p].nearby_poi.name = full.name


----------------------------------------------------------------------------
(* add_user_card step by step: its three store operations are three        *)
(* awaits, and concurrent requests interleave between them                 *)

(* The card ids a request can name: the catalog's and one it does not hold. *)
RequestCardIds == CardIds \cup {"unknown"}

(* credit_cards.find_one and the 404 return. *)
AddFindCard(p, user, card_id) ==
    /\ add_call[p].pc = "idle"
    /\ add_call' = [add_call EXCEPT ![p] =
           IF card_id \notin CardIds
           THEN [pc |-> "done", user |-> user, card_id |-> card_id,
                 status |-> 404]
           ELSE [pc |-> "existing", user |-> user, card_id |-> card_id,
                 status |-> 0]]
    /\ UNCHANGED <<now, dbvars, call, notified, purevars, auxvars, owned,
                   signup_call>>

(* user_cards.find_one on (user_id, card_id) and the 400 return. *)
AddFindExisting(p) ==
    /\ add_call[p].pc = "existing"
    /\ add_call' = [add_call EXCEPT ![p] =
           IF \E i \in DOMAIN user_cards :
                  /\ user_cards[i].user_id = add_call[p].user
                  /\ user_cards[i].card_id = add_call[p].card_id
           THEN [@ EXCEPT !.pc = "done", !.status = 400]
           ELSE [@ EXCEPT !.pc = "insert"]]
    /\ UNCHANGED <<now, dbvars, call, notified, purevars, auxvars, owned,
                   signup_call>>

(* user_cards.insert_one and the return of the new UserCard. *)
AddInsert(p) ==
    /\ add_call[p].pc = "insert"
    /\ user_cards' = Append(user_cards,
                            UserCard(add_call[p].user, add_call[p].card_id))
    /\ owned' = [owned EXCEPT ![add_call[p].user] = @ \cup {add_call[p].card_id}]
    /\ add_call' = [add_call EXCEPT ![p] = [@ EXCEPT !.pc = "done",
                                                     !.status = 200]]
    /\ UNCHANGED <<now, poi_locations, notification_logs, call, notified,
                   purevars, auxvars, signup_call>>

(* The response has been sent; the slot is free for the next request. *)
AddReturn(p) ==
    /\ add_call[p].pc = "done"
    /\ add_call' = [add_call EXCEPT ![p] = AddIdleFrame]
    /\ UNCHANGED <<now, dbvars, call, notified, purevars, auxvars, owned,
                   signup_call>>

NextAdd ==
    \/ \E p \in Procs, u \in Users, c \in RequestCardIds : AddFindCard(p, u, c)
    \/ \E p \in Procs : AddFindExisting(p)
    \/ \E p \in Procs : AddInsert(p)
    \/ \E p \in Procs : AddReturn(p)
    \/ \E u \in Users, c \in CardIds : remove_user_card(u, c)

SpecAdd == Init /\ [][NextAdd]_vars

(* C24: under any interleaving of add_user_card calls a wallet holds at    *)
(* most one entry per catalog card; a request for a card already in the    *)
(* wallet is answered 400 and one for an unknown card id 404, and neither  *)
(* adds anything.                                                          *)
C24_OneEntryPerCard ==
    /\ \A i, j \in DOMAIN user_cards :
           (i < j /\ user_cards[i].user_id = user_cards[j].user_id)
               => user_cards[i].card_id # user_cards[j].card_id
    /\ \A i \in DOMAIN user_cards : user_cards[i].card_id \in CardIds
    /\ \A p \in Procs :
           (add_call[p].pc = "done" /\ add_call[p].card_id \notin CardIds)
               => add_call[p].status = 404


----------------------------------------------------------------------------
(* signup step by step: users.find_one and users.insert_one are two awaits *)

(* The emails a signup request can carry: a registered one and new ones.   *)
SignupEmails == {"u1@example.com", "new@example.com", "other@example.com"}

(* User() draws a fresh uuid for every stored user.                        *)
FreshIds == <<"n1", "n2", "n3", "n4">>

User(email) ==
    [id |-> FreshIds[Len(users) - Len(SignedUp) + 1], email |-> email,
     questionnaire |-> <<>>]

(* users.find_one on the email and the 400 return. *)
SignupFind(p, email) ==
    /\ signup_call[p].pc = "idle"
    /\ signup_call' = [signup_call EXCEPT ![p] =
           IF \E i \in DOMAIN users : users[i].email = email
           THEN [pc |-> "done", email |-> email, status |-> 400]
           ELSE [pc |-> "insert", email |-> email, status |-> 0]]
    /\ UNCHANGED <<now, dbvars, call, notified, purevars, auxvars, owned,
                   add_call>>

(* users.insert_one of the new user and the token response. *)
SignupInsert(p) ==
    /\ signup_call[p].pc = "insert"
    /\ users' = Append(users, User(signup_call[p].email))
    /\ signup_call' = [signup_call EXCEPT ![p] = [@ EXCEPT !.pc = "done",
                                                           !.status = 200]]
    /\ UNCHANGED <<now, dbvars, call, notified, purevars, fmt_in, fmt_out,
                   dist_in, dist_out, credit_cards, cards_call, http_out,
                   wallet_out, owned, add_call>>

(* The response has been sent; the slot is free for the next request. *)
SignupReturn(p) ==
    /\ signup_call[p].pc = "done"
    /\ signup_call' = [signup_call EXCEPT ![p] = SignupIdleFrame]
    /\ UNCHANGED <<now, dbvars, call, notified, purevars, auxvars, owned,
                   add_call>>

NextSignup ==
    \/ \E p \in Procs, e \in SignupEmails : SignupFind(p, e)
    \/ \E p \in Procs : SignupInsert(p)
    \/ \E p \in Procs : SignupReturn(p)

SpecSignup == Init /\ [][NextSignup]_vars

(* C25: under any interleaving of signup calls no two stored users share   *)
(* an email; a signup with a registered email is answered 400 and stores   *)
(* no user.                                                                *)
C25_UniqueEmail ==
    /\ \A i, j \in DOMAIN users :
           i < j => users[i].email # users[j].email
    /\ \A p \in Procs :
           signup_call[p].status = 400
               => \E i \in DOMAIN users : users[i].email = signup_call[p].email


----------------------------------------------------------------------------
(* check_location with the request body's user_id made explicit            *)

(* LocationCheck.user_id is any string: a registered user's id or not.     *)
BodyUserIds == Users \cup {"stranger"}

(* The request arrives with a valid token of `user` and a body naming      *)
(* body_user_id; requests are served one at a time.                        *)
FindPoisBody(p, user, body_user_id, lat) ==
    /\ call[p].pc = "idle"
    /\ InFlight = {}
    /\ Len(notification_logs) < MaxLogs
    /\ poi_locations # <<>>
    /\ call' = [call EXCEPT ![p] =
                   AfterPois([IdleFrame EXCEPT !.user = user,
                                               !.latitude = lat,
                                               !.body_user_id = body_user_id],
                             poi_locations)]
    /\ UNCHANGED <<now, dbvars, notified, purevars, auxvars, owned, reqvars>>

NextBody ==
    \/ \E p \in Procs, u \in Users, b \in BodyUserIds, lat \in SampleLats :
           FindPoisBody(p, u, b, lat)
    \/ \E p \in Procs : CheckThrottle(p)
    \/ \E p \in Procs : FindCards(p)
    \/ \E p \in Procs : InsertLog(p)
    \/ \E p \in Procs : Return(p)
    \/ \E u \in WalletUsers, c \in CardIds : add_user_card(u, c)
    \/ \E u \in WalletUsers, c \in CardIds : remove_user_card(u, c)

SpecBody == Init /\ [][NextBody]_vars

(* C26: the throttle lookup, the wallet lookup and the written record of   *)
(* check_location are keyed on the authenticated user, whatever user_id    *)
(* the body names: the call is throttled exactly when the authenticated    *)
(* user has a recent record for the POI, answers no_cards exactly when     *)
(* the authenticated user's wallet is empty, recommends from that wallet,  *)
(* and the only record a call stores carries the authenticated user's id.  *)
C26_AuthenticatedUserOnly ==
    [][\A p \in Procs :
          LET f == call[p]
              g == call'[p]
              best_match == get_best_card_for_category(CardsOf(f.user),
                                                       f.nearby_poi.category)
          IN  /\ (f.pc = "throttle" /\ g.pc # "throttle")
                    => ((g.pc = "done" /\ g.response[1].kind = "throttled")
                          <=> RecentNotification(f.user, f.nearby_poi.id,
                                                 f.four_hours_ago))
              /\ (f.pc = "cards" /\ g.pc # "cards")
                    => /\ (g.pc = "done" /\ g.response[1].kind = "no_cards")
                             <=> CardsOf(f.user) = <<>>
                       /\ (g.pc = "done" /\ g.response[1].kind = "no_match")
                             <=> (CardsOf(f.user) # <<>> /\ best_match = <<>>)
                       /\ g.pc = "insert"
                             => g.log = <<NotificationLog(f.user, f.nearby_poi.id,
                                                          best_match[1].card_name)>>
              /\ (f.pc = "insert" /\ g.pc # "insert")
                    => /\ notification_logs' =
                              Append(notification_logs, f.log[1])
                       /\ f.log[1].user_id = f.user
                       /\ g.response[1].card = f.log[1].card_recommended
              /\ notification_logs' # notification_logs
                    => \E q \in Procs : call[q].pc = "insert"
                                        /\ call'[q].pc # "insert"
      ]_vars

(* A call whose body names another user, one with a recent record for the  *)
(* POI, is recommended a card and stores a record under the caller's id.   *)
C26_Witness ==
    \E p \in Procs :
        /\ Responded(p, "recommendation")
        /\ call[p].body_user_id \in Users \ {call[p].user}
        /\ RecordsOf(call[p].body_user_id, call[p].nearby_poi.id) # {}
        /\ notification_logs[Len(notification_logs)].user_id = call[p].user
        /\ Cardinality(RecordsOf(call[p].user, call[p].nearby_poi.id)) = 1

============================================================================
